---------------------------- MODULE Spec2Model ----------------------------
(***************************************************************************)
(* Image indexing service (app.py): the Flask request handlers             *)
(* start_indexing and get_indexing_status, and the background thread       *)
(* index_images_background, sharing the global dict indexing_status and    *)
(* the vector store behind client.upsert.                                  *)
(*                                                                         *)
(* The server runs with threaded=True, so every request is served by its   *)
(* own thread; each dict store/load is one atomic step (the interpreter    *)
(* lock), and nothing else is.  A step of the model is one such access     *)
(* together with the thread-local code that precedes it.                   *)
(***************************************************************************)
EXTENDS Integers, Sequences, FiniteSets

\* ------------------------------------------------------------------ bounds
\* Largest number of images a scanned folder holds.
MaxItems == 2
\* Number of Start requests accepted over a behaviour (threads launched).
MaxRuns == 2
\* Threads the scraper's Start button starts over a behaviour.
MaxScrapes == 2
\* Largest number typed into the scraper's Max Photos entry.
MaxPhotos == 2
\* Largest number of new image buttons one pass over the page finds.
MaxButtons == 2
\* Flush threshold of the pending batch.  The program uses 100 (app.py:126);
\* the model scales it down so that an in-loop flush happens within MaxItems.
batch_size == 2

\* ---------------------------------------------------------------- universe
\* Request-serving threads of the threaded server.
Handlers == {1, 2}
Workers == 1..MaxRuns

\* A request names a folder: one that exists and holds n images, or a path
\* for which os.path.exists is false.
Folders == 0..MaxItems
Requests == [exists : {TRUE}, n : Folders] \cup {[exists |-> FALSE, n |-> 0]}

\* Python's None for start_time; a set start_time is the stamp of the run
\* that wrote it (Workers are numbered from 1).
None == 0

Msg(kind, a, b) == [kind |-> kind, a |-> a, b |-> b]

\* What a handler returns: jsonify(body), code.  op names the route and by the
\* request thread that served it (0 for the status route, which is one step).
Response(op, by, code, body) == [op |-> op, by |-> by, code |-> code, body |-> body]
NoResponse == Response("", 0, 0, [error |-> ""])
NoRequest == [exists |-> TRUE, n |-> 0]

VARIABLES
    indexing_status,  \* the global dict
    store,            \* the collection "image_search": a set of points
    hpc,              \* per request thread: position in start_indexing
    hreq,             \* per request thread: the folder of its request
    launched,         \* number of threads started so far
    worker,           \* per background thread: locals of index_images_background
    response,         \* the response sent by the last step (NoResponse: none)
    previous,         \* the run completed before the behaviour begins (NoRun: none)
    request,          \* the body of the search request served by the last step
    called,           \* the model and store calls made by the last search or stats request
    folder_files,     \* the files under the image folder being scanned
    scan_result,      \* whether folder_files was scanned, and image_files if so
    batch_input,      \* a folder, its embed and upsert outcomes, and a batch size
    batch_result,     \* the outcome of the run with that batch size and with 1
    start_button,     \* webscraper.py: state of the Start button
    stop_button,      \* webscraper.py: state of the Stop button
    stop_event,       \* webscraper.py: the threading.Event
    scraper_thread,   \* webscraper.py: self.scraper_thread (None, or the last thread started)
    scraper,          \* webscraper.py: per thread, the locals of start_scraping
    closed            \* webscraper.py: the window was destroyed and the process has ended

\* The variables of the search and stats routes besides the store and the status.
queryvars == <<request, called>>

\* The variables of the folder scan taken alone.
scanvars == <<folder_files, scan_result>>

\* The variables of the comparison of batch sizes.
batchvars == <<batch_input, batch_result>>

\* The variables of the scraper (webscraper.py), a program of its own.
scrapervars == <<start_button, stop_button, stop_event, scraper_thread, scraper, closed>>

\* The variables the steps of start_indexing, get_indexing_status and
\* index_images_background have nothing to do with, and those the search and
\* stats routes have nothing to do with.
offapp == <<queryvars, scanvars, batchvars, scrapervars>>
offquery == <<scanvars, batchvars, scrapervars>>

appvars == <<indexing_status, store, hpc, hreq, launched, worker, response, previous>>

vars == <<appvars, offapp>>

\* ------------------------------------------------------------ pure helpers
\* A start_indexing that takes every path for an existing folder.
FolderExists_always(req) == TRUE

\* os.path.exists(image_folder)
FolderExists(req) == req.exists

Range(points) == {points[i] : i \in 1..Len(points)}

\* ---- the folder scan, app.py:103-116
\* A file under the image folder: the directory it is in ("" is the folder
\* itself), its stem and its suffix.
File(dir, stem, ext) == [dir |-> dir, stem |-> stem, ext |-> ext]
Dirs == {"", "sub"}
Exts == {"jpg", "jpeg", "png", "txt"}

\* A list of the members of a set, in the order the file system or the hash
\* table happens to give.
RECURSIVE Listing(_)
Listing(S) ==
    IF S = {} THEN <<>>
    ELSE LET x == CHOOSE y \in S : TRUE IN <<x>> \o Listing(S \ {x})

\* list(image_folder.glob("*." + ext)): the files of the folder itself
glob(fs, ext) == Listing({f \in fs : f.dir = "" /\ f.ext = ext})

\* list(image_folder.rglob("*." + ext)): those and the files of its subfolders
rglob(fs, ext) == Listing({f \in fs : f.ext = ext})

\* app.py:106-113: the six lists, concatenated
Globbed(fs) ==
    glob(fs, "jpg") \o glob(fs, "jpeg") \o glob(fs, "png")
        \o rglob(fs, "jpg") \o rglob(fs, "jpeg") \o rglob(fs, "png")

\* A scan that keeps the concatenated list as it is.
Dedup_keep(list) == list

\* app.py:116: list(set(image_files))
Dedup(list) == Listing(Range(list))

ScanFiles(fs) == Dedup(Globbed(fs))

\* The folder of a request that holds n images: the even ones in the folder
\* itself, the odd ones in a subfolder, each with its description beside it.
FolderOf(n) ==
    UNION {{File(IF i % 2 = 0 THEN "" ELSE "sub", i, "jpg"),
            File(IF i % 2 = 0 THEN "" ELSE "sub", i, "txt")} : i \in 0..(n - 1)}

\* len(list(set(globs))): the number of distinct image files under the folder
ScanCount(req) == Len(ScanFiles(FolderOf(req.n)))

\* The dict literal of the module level.
InitialStatus ==
    [is_indexing |-> FALSE, progress |-> 0, total |-> 0,
     message |-> Msg("", 0, 0), start_time |-> None,
     estimated_time |-> Msg("None", 0, 0)]

\* The dict literal start_indexing rebinds the global to.
ResetStatus ==
    [is_indexing |-> TRUE, progress |-> 0, total |-> 0,
     message |-> Msg("Starting indexing...", 0, 0), start_time |-> None,
     estimated_time |-> Msg("None", 0, 0)]

\* estimate_time_remaining raises TypeError on time.time() - None (a reset by
\* start_indexing after app.py:120).  elapsed is positive otherwise: an embed
\* has run since start_time was taken.
EstimateRaises(progress, start_time) == progress # 0 /\ start_time = None

\* estimate_time_remaining: the text depends on the wall clock; the model
\* keeps what it is computed from.
estimate_time_remaining(progress, total, start_time) ==
    IF progress = 0 THEN Msg("Calculating...", 0, 0)
    ELSE Msg("remaining", progress, total)

\* PointStruct(id=idx, payload={path of the idx-th file of the folder})
PointStruct(idx, req) == [id |-> idx, folder |-> req.n, item |-> idx]

Ids(points) == {points[i].id : i \in 1..Len(points)}

\* client.upsert: insert or overwrite by id
Upsert(st, points) == {p \in st : p.id \notin Ids(points)} \cup Range(points)

\* No earlier run: the store and the status are as the module leaves them.
NoRun == [req |-> NoRequest, total |-> 0, done |-> FALSE]

\* The body of a search request: a JSON object with or without the keys.
Body(has_query, query, has_top_k, top_k) ==
    [has_query |-> has_query, query |-> query, has_top_k |-> has_top_k, top_k |-> top_k]
NoBody == Body(FALSE, "", FALSE, 0)

\* No search or stats request is being answered.
QueryIdle == request = NoBody /\ called = {}

\* No batch sizes are being compared.
NoBatch == [n |-> 0, emb |-> {}, down |-> {}, flush_ok |-> TRUE, bs |-> 1]
NotRun == [ran |-> FALSE]
BatchIdle == batch_input = NoBatch /\ batch_result = NotRun

\* ---- the scraper, webscraper.py
\* Threads start_thread may start over a behaviour.
SThreads == 1..MaxScrapes

\* The locals of a start_scraping that has not been started.
UnbornScraper ==
    [pc |-> "unborn", max_photos |-> 0, downloaded_count |-> 0, buttons |-> 0]

\* ScraperApp.__init__ (webscraper.py:142-179): Start enabled, Stop disabled,
\* no thread, the event clear.
ScraperIdle ==
    /\ start_button = "normal"
    /\ stop_button = "disabled"
    /\ stop_event = FALSE
    /\ scraper_thread = None
    /\ scraper = [t \in SThreads |-> UnbornScraper]
    /\ closed = FALSE

\* No folder is being scanned on its own.
Unscanned == [scanned |-> FALSE, image_files |-> <<>>]
ScanIdle == folder_files = {} /\ scan_result = Unscanned

UnbornWorker ==
    [pc |-> "unborn", req |-> NoRequest, image_files |-> 0,
     idx |-> 0, points |-> <<>>, errors |-> 0,
     eta |-> Msg("None", 0, 0),
     \* history of the run, read by the properties only
     embedded |-> {}, errored |-> {}, written |-> {}, fresh |-> FALSE]

\* No request is being served and no thread has been started.
NoThreads ==
    /\ hpc = [h \in Handlers |-> "idle"]
    /\ hreq = [h \in Handlers |-> NoRequest]
    /\ launched = 0
    /\ worker = [w \in Workers |-> UnbornWorker]
    /\ response = NoResponse

\* The service as the module level leaves it.
AppIdle ==
    /\ indexing_status = InitialStatus
    /\ store = {}
    /\ previous = NoRun
    /\ NoThreads

Init ==
    /\ AppIdle
    /\ QueryIdle
    /\ ScanIdle
    /\ BatchIdle
    /\ ScraperIdle

\* ------------------------------------------------------- start_indexing
\* Requests past the is_indexing test that have not yet started their thread.
Pending == Cardinality({h \in Handlers : hpc[h] \in {"exists", "reset", "launch"}})

\* A start_indexing without the is_indexing test.
start_check_ungated(h, req) ==
    /\ hpc[h] = "idle"
    /\ launched + Pending < MaxRuns
    /\ hpc' = [hpc EXCEPT ![h] = "exists"]
    /\ hreq' = [hreq EXCEPT ![h] = req]
    /\ response' = NoResponse
    /\ UNCHANGED <<indexing_status, store, launched, worker>>
    /\ UNCHANGED <<previous, offapp>>

\* app.py:198-202: the is_indexing test and the read of the request body.
start_check(h, req) ==
    /\ hpc[h] = "idle"
    /\ IF indexing_status.is_indexing
         THEN /\ response' = Response("index", h, 400, [error |-> "Indexing already in progress"])
              /\ UNCHANGED <<hpc, hreq>>
         ELSE /\ launched + Pending < MaxRuns
              /\ hpc' = [hpc EXCEPT ![h] = "exists"]
              /\ hreq' = [hreq EXCEPT ![h] = req]
              /\ response' = NoResponse
    /\ UNCHANGED <<indexing_status, store, launched, worker>>
    /\ UNCHANGED <<previous, offapp>>

\* app.py:204-205
start_exists(h) ==
    /\ hpc[h] = "exists"
    /\ IF FolderExists(hreq[h])
         THEN /\ hpc' = [hpc EXCEPT ![h] = "reset"]
              /\ response' = NoResponse
              /\ UNCHANGED hreq
         ELSE /\ hpc' = [hpc EXCEPT ![h] = "idle"]
              /\ hreq' = [hreq EXCEPT ![h] = NoRequest]
              /\ response' = Response("index", h, 404, [error |-> "Folder not found"])
    /\ UNCHANGED <<indexing_status, store, launched, worker>>
    /\ UNCHANGED <<previous, offapp>>

\* app.py:207-215: the global is rebound to a new dict
start_reset(h) ==
    /\ hpc[h] = "reset"
    /\ indexing_status' = ResetStatus
    /\ hpc' = [hpc EXCEPT ![h] = "launch"]
    /\ response' = NoResponse
    /\ UNCHANGED <<store, hreq, launched, worker>>
    /\ UNCHANGED <<previous, offapp>>

\* app.py:217-220: threading.Thread(...).start()
start_launch(h) ==
    /\ hpc[h] = "launch"
    /\ launched' = launched + 1
    /\ worker' = [worker EXCEPT ![launched + 1] =
                     [UnbornWorker EXCEPT !.pc = "scan", !.req = hreq[h],
                                          !.fresh = (store = {})]]
    /\ hpc' = [hpc EXCEPT ![h] = "return"]
    /\ hreq' = [hreq EXCEPT ![h] = NoRequest]
    /\ response' = NoResponse
    /\ UNCHANGED <<indexing_status, store>>
    /\ UNCHANGED <<previous, offapp>>

\* app.py:222
start_return(h) ==
    /\ hpc[h] = "return"
    /\ response' = Response("index", h, 200, [message |-> "Indexing started",
                                               status |-> indexing_status])
    /\ hpc' = [hpc EXCEPT ![h] = "idle"]
    /\ UNCHANGED <<indexing_status, store, hreq, launched, worker>>
    /\ UNCHANGED <<previous, offapp>>

\* ------------------------------------------------ index_images_background
Alive(w) == worker[w].pc \notin {"unborn", "done", "dead"}

\* The thread has not yet executed app.py:182.
Running(w) ==
    worker[w].pc \in {"scan", "l118", "l119", "l120", "l121", "item", "upsert",
                      "l160", "l161", "l161w", "l166", "flush", "l182"}

\* except Exception (app.py:172-175): count an error, go to the next item
ItemError(w) ==
    [worker[w] EXCEPT !.errors = @ + 1, !.errored = @ \cup {worker[w].idx},
                      !.idx = @ + 1, !.pc = "item"]

\* app.py:103-116: the globs; an OSError of the scan ends the thread
index_scan(w) ==
    /\ worker[w].pc = "scan"
    /\ \/ worker' = [worker EXCEPT ![w].image_files = ScanCount(worker[w].req),
                                   ![w].pc = "l118"]
       \/ worker' = [worker EXCEPT ![w].pc = "dead"]
    /\ response' = NoResponse
    /\ UNCHANGED <<indexing_status, store, hpc, hreq, launched>>
    /\ UNCHANGED <<previous, offapp>>

\* app.py:118
index_total(w) ==
    /\ worker[w].pc = "l118"
    /\ indexing_status' = [indexing_status EXCEPT !.total = worker[w].image_files]
    /\ worker' = [worker EXCEPT ![w].pc = "l119"]
    /\ response' = NoResponse
    /\ UNCHANGED <<store, hpc, hreq, launched>>
    /\ UNCHANGED <<previous, offapp>>

\* app.py:119
index_progress0(w) ==
    /\ worker[w].pc = "l119"
    /\ indexing_status' = [indexing_status EXCEPT !.progress = 0]
    /\ worker' = [worker EXCEPT ![w].pc = "l120"]
    /\ response' = NoResponse
    /\ UNCHANGED <<store, hpc, hreq, launched>>
    /\ UNCHANGED <<previous, offapp>>

\* app.py:120
index_start_time(w) ==
    /\ worker[w].pc = "l120"
    /\ indexing_status' = [indexing_status EXCEPT !.start_time = w]
    /\ worker' = [worker EXCEPT ![w].pc = "l121"]
    /\ response' = NoResponse
    /\ UNCHANGED <<store, hpc, hreq, launched>>
    /\ UNCHANGED <<previous, offapp>>

\* app.py:121-127
index_found(w) ==
    /\ worker[w].pc = "l121"
    /\ indexing_status' =
           [indexing_status EXCEPT !.message = Msg("Found", worker[w].image_files, 0)]
    /\ worker' = [worker EXCEPT ![w].pc = "item"]
    /\ response' = NoResponse
    /\ UNCHANGED <<store, hpc, hreq, launched>>
    /\ UNCHANGED <<previous, offapp>>

\* app.py:129-155: the loop head, read_description, embed_image (which returns
\* None on any failure), the append and the batch-size test
index_item(w) ==
    /\ worker[w].pc = "item"
    /\ IF worker[w].idx = worker[w].image_files
         THEN worker' = [worker EXCEPT ![w].pc = "flush"]
         ELSE \E embedding \in {"None", "vector"} :
                IF embedding = "None"
                  THEN worker' = [worker EXCEPT ![w] = ItemError(w)]
                  ELSE LET pts == Append(worker[w].points,
                                         PointStruct(worker[w].idx, worker[w].req))
                       IN worker' = [worker EXCEPT
                              ![w].points = pts,
                              ![w].embedded = @ \cup {worker[w].idx},
                              ![w].pc = IF Len(pts) >= batch_size
                                          THEN "upsert" ELSE "l160"]
    /\ response' = NoResponse
    /\ UNCHANGED <<indexing_status, store, hpc, hreq, launched>>
    /\ UNCHANGED <<previous, offapp>>

\* app.py:156-157: the in-loop flush; when upsert raises, points is kept
index_upsert(w) ==
    /\ worker[w].pc = "upsert"
    /\ \/ /\ store' = Upsert(store, worker[w].points)
          /\ worker' = [worker EXCEPT ![w].written = @ \cup Ids(worker[w].points),
                                      ![w].points = <<>>,
                                      ![w].pc = "l160"]
       \/ /\ worker' = [worker EXCEPT ![w] = ItemError(w)]
          /\ UNCHANGED store
    /\ response' = NoResponse
    /\ UNCHANGED <<indexing_status, hpc, hreq, launched>>
    /\ UNCHANGED <<previous, offapp>>

\* app.py:160
index_progress(w) ==
    /\ worker[w].pc = "l160"
    /\ indexing_status' = [indexing_status EXCEPT !.progress = worker[w].idx + 1]
    /\ worker' = [worker EXCEPT ![w].pc = "l161"]
    /\ response' = NoResponse
    /\ UNCHANGED <<store, hpc, hreq, launched>>
    /\ UNCHANGED <<previous, offapp>>

\* app.py:161-165: the call, which reads indexing_status["start_time"]
index_estimate(w) ==
    /\ worker[w].pc = "l161"
    /\ IF EstimateRaises(worker[w].idx + 1, indexing_status.start_time)
         THEN worker' = [worker EXCEPT ![w] = ItemError(w)]
         ELSE worker' = [worker EXCEPT
                  ![w].eta = estimate_time_remaining(worker[w].idx + 1,
                                 worker[w].image_files, indexing_status.start_time),
                  ![w].pc = "l161w"]
    /\ response' = NoResponse
    /\ UNCHANGED <<indexing_status, store, hpc, hreq, launched>>
    /\ UNCHANGED <<previous, offapp>>

\* app.py:161: the store of the call's result
index_estimated_time(w) ==
    /\ worker[w].pc = "l161w"
    /\ indexing_status' = [indexing_status EXCEPT !.estimated_time = worker[w].eta]
    /\ worker' = [worker EXCEPT ![w].pc = "l166"]
    /\ response' = NoResponse
    /\ UNCHANGED <<store, hpc, hreq, launched>>
    /\ UNCHANGED <<previous, offapp>>

\* app.py:166-170
index_message(w) ==
    /\ worker[w].pc = "l166"
    /\ indexing_status' = [indexing_status EXCEPT
           !.message = Msg("Processed", worker[w].idx + 1, worker[w].image_files)]
    /\ worker' = [worker EXCEPT ![w].idx = @ + 1, ![w].pc = "item"]
    /\ response' = NoResponse
    /\ UNCHANGED <<store, hpc, hreq, launched>>
    /\ UNCHANGED <<previous, offapp>>

\* app.py:177-179: the flush of the remainder, outside the try
index_flush(w) ==
    /\ worker[w].pc = "flush"
    /\ IF worker[w].points = <<>>
         THEN worker' = [worker EXCEPT ![w].pc = "l182"] /\ UNCHANGED store
         ELSE \/ /\ store' = Upsert(store, worker[w].points)
                 /\ worker' = [worker EXCEPT
                        ![w].written = @ \cup Ids(worker[w].points),
                        ![w].points = <<>>,
                        ![w].pc = "l182"]
              \/ /\ worker' = [worker EXCEPT ![w].pc = "dead"]
                 /\ UNCHANGED store
    /\ response' = NoResponse
    /\ UNCHANGED <<indexing_status, hpc, hreq, launched>>
    /\ UNCHANGED <<previous, offapp>>

\* app.py:182
index_finish(w) ==
    /\ worker[w].pc = "l182"
    /\ indexing_status' = [indexing_status EXCEPT !.is_indexing = FALSE]
    /\ worker' = [worker EXCEPT ![w].pc = "l184"]
    /\ response' = NoResponse
    /\ UNCHANGED <<store, hpc, hreq, launched>>
    /\ UNCHANGED <<previous, offapp>>

\* app.py:183-186
index_summary(w) ==
    /\ worker[w].pc = "l184"
    /\ indexing_status' = [indexing_status EXCEPT
           !.message = Msg("Completed", worker[w].image_files - worker[w].errors,
                           worker[w].errors)]
    /\ worker' = [worker EXCEPT ![w].pc = "done"]
    /\ response' = NoResponse
    /\ UNCHANGED <<store, hpc, hreq, launched>>
    /\ UNCHANGED <<previous, offapp>>

\* ------------------------------------------------------ get_indexing_status
\* app.py:224-227: jsonify serialises the dict in one step of the interpreter
get_indexing_status ==
    /\ response' = Response("status", 0, 200, indexing_status)
    /\ UNCHANGED <<indexing_status, store, hpc, hreq, launched, worker>>
    /\ UNCHANGED <<previous, offapp>>

\* ------------------------------------------------------------ batch sizes
\* One run of index_images_background taken as a function of its folder, of
\* what embed_image and client.upsert do for each image, and of the flush
\* threshold (app.py:126), which the thread above fixes to batch_size.
\*   n         images in the folder
\*   emb       the images embed_image returns a vector for
\*   down      the images during whose handling client.upsert raises
\*   flush_ok  whether the upsert of the remainder (app.py:179) returns
BatchSizes == 1..(MaxItems + 1)
BatchInputs ==
    UNION {[n : {n}, emb : SUBSET (0..(n - 1)), down : SUBSET (0..(n - 1)),
            flush_ok : BOOLEAN, bs : BatchSizes] : n \in 0..MaxItems}

\* The locals of the loop and what it has written: app.py:125-127.
LoopStart ==
    [idx |-> 0, points |-> <<>>, errors |-> 0, progress |-> 0, store |-> {}]

\* app.py:130-175: one pass of the loop body for image st.idx
LoopItem(st, in, bs) ==
    LET req == [exists |-> TRUE, n |-> in.n] IN
    IF st.idx \notin in.emb
      THEN [st EXCEPT !.errors = @ + 1, !.idx = @ + 1]
      ELSE LET pts == Append(st.points, PointStruct(st.idx, req)) IN
           IF Len(pts) >= bs
             THEN IF st.idx \in in.down
                    THEN [st EXCEPT !.points = pts, !.errors = @ + 1, !.idx = @ + 1]
                    ELSE [st EXCEPT !.store = Upsert(st.store, pts),
                                    !.points = <<>>,
                                    !.progress = st.idx + 1, !.idx = @ + 1]
             ELSE [st EXCEPT !.points = pts,
                             !.progress = st.idx + 1, !.idx = @ + 1]

RECURSIVE Loop(_, _, _)
Loop(st, in, bs) ==
    IF st.idx = in.n THEN st ELSE Loop(LoopItem(st, in, bs), in, bs)

\* app.py:125-184: the loop, the flush of the remainder and the summary.  A
\* run whose last flush raises does not end: the thread dies at app.py:179.
RunWith(in, bs) ==
    LET st == Loop(LoopStart, in, bs)
        flushed == st.points = <<>> \/ in.flush_ok
    IN [ended |-> flushed,
        store |-> IF flushed THEN Upsert(st.store, st.points) ELSE st.store,
        progress |-> st.progress,
        total |-> in.n,
        errors |-> st.errors]

BatchInit ==
    /\ batch_input \in BatchInputs
    /\ batch_result = NotRun
    /\ AppIdle
    /\ QueryIdle
    /\ ScanIdle
    /\ ScraperIdle

\* The same folder and outcomes, run with the batch size drawn and with 1.
run_batches ==
    /\ ~batch_result.ran
    /\ batch_result' = [ran |-> TRUE,
                        own |-> RunWith(batch_input, batch_input.bs),
                        one |-> RunWith(batch_input, 1)]
    /\ UNCHANGED <<appvars, queryvars, scanvars, scrapervars, batch_input>>

BatchNext == run_batches

BatchSpec == BatchInit /\ [][BatchNext]_vars

\* ---------------------------------------------------------------- re-index
\* The status a completed run over req leaves when every image was embedded
\* and written: app.py:118-121, 160-166 for the last image, 182-184.
CompletedStatus(req, stamp) ==
    [is_indexing |-> FALSE, progress |-> req.n, total |-> req.n,
     message |-> Msg("Completed", req.n, 0), start_time |-> stamp,
     estimated_time |-> IF req.n = 0 THEN Msg("None", 0, 0)
                        ELSE Msg("remaining", req.n, req.n)]

\* The service after one completed run: the state in which the same folder is
\* indexed again.  The earlier run's stamp is none of the later runs'.
ReindexInit ==
    \E req \in {r \in Requests : r.exists /\ r.n > 0} :
        /\ indexing_status = CompletedStatus(req, MaxRuns + 1)
        /\ store = {PointStruct(i, req) : i \in 0..(req.n - 1)}
        /\ previous = [req |-> req, total |-> req.n, done |-> TRUE]
        /\ NoThreads
        /\ QueryIdle
        /\ ScanIdle
        /\ BatchIdle
        /\ ScraperIdle

\* -------------------------------------------------------------- the scan
\* The files a folder may hold: images and other files, in the folder and in
\* a subfolder.
Paths == {File(d, "a", e) : d \in Dirs, e \in Exts}

ScanInit ==
    /\ folder_files \in SUBSET Paths
    /\ scan_result = Unscanned
    /\ AppIdle
    /\ QueryIdle
    /\ BatchIdle
    /\ ScraperIdle

\* app.py:105-116 over the files of the folder
scan_folder ==
    /\ ~scan_result.scanned
    /\ scan_result' = [scanned |-> TRUE, image_files |-> ScanFiles(folder_files)]
    /\ UNCHANGED <<appvars, queryvars, batchvars, scrapervars, folder_files>>

ScanNext == scan_folder

ScanSpec == ScanInit /\ [][ScanNext]_vars

\* ------------------------------------------------------------ stop request
\* app.py:188-315: the routes.  None of them stops a job and the thread reads
\* no flag, so a request to stop a running job matches no route: the router
\* answers 404 and no handler runs.
request_stop ==
    /\ indexing_status.is_indexing
    /\ response' = Response("stop", 0, 404, [error |-> "Not Found"])
    /\ UNCHANGED <<indexing_status, store, hpc, hreq, launched, worker>>
    /\ UNCHANGED <<previous, offapp>>

\* ------------------------------------------------------------------ search
\* The default of data.get('top_k', 12).
DefaultTopK == 12

\* Search texts: the empty string, a blank one (not empty for Python) and a phrase.
Queries == {"", " ", "red car"}
SearchBodies ==
    {Body(TRUE, q, t, k) : q \in Queries, t \in BOOLEAN, k \in {1}}
        \cup {Body(FALSE, "", t, k) : t \in BOOLEAN, k \in {1}}

\* data.get('query', '') and data.get('top_k', 12)
QueryOf(body) == IF body.has_query THEN body.query ELSE ""
TopKOf(body) == IF body.has_top_k THEN body.top_k ELSE DefaultTopK

\* A search that takes every query for a non-empty one.
Falsy_never(query) == FALSE

\* not query
Falsy(query) == query = ""

Min(a, b) == IF a <= b THEN a ELSE b

\* app.py:229-277.  The handler reads the store once (client.search) and no
\* shared variable otherwise, so it is one step.  Each of the three calls may
\* raise; the except branch answers 500.
search ==
    \E body \in SearchBodies :
        LET query == QueryOf(body)
            top_k == TopKOf(body)
        IN /\ request' = body
           /\ IF Falsy(query)
                THEN /\ response' = Response("search", 0, 400, [error |-> "Query is required"])
                     /\ called' = {}
                ELSE \/ /\ called' = {"tokenizer"}
                        /\ response' = Response("search", 0, 500, [error |-> "tokenizer"])
                     \/ /\ called' = {"tokenizer", "encode_text"}
                        /\ response' = Response("search", 0, 500, [error |-> "encode_text"])
                     \/ /\ called' = {"tokenizer", "encode_text", "client.search"}
                        /\ response' = Response("search", 0, 500, [error |-> "client.search"])
                     \/ /\ called' = {"tokenizer", "encode_text", "client.search"}
                        /\ response' = Response("search", 0, 200,
                               [query |-> query,
                                count |-> Min(top_k, Cardinality(store))])
           /\ UNCHANGED <<indexing_status, store, hpc, hreq, launched, worker, previous, offquery>>

\* --------------------------------------------------------------- get_stats
\* app.py:279-294: client.get_collection answers or raises; the except branch
\* builds its own dict.
get_stats ==
    /\ called' = {"client.get_collection"}
    /\ request' = NoBody
    /\ \/ response' = Response("stats", 0, 200,
              [total_images |-> Cardinality(store),
               is_indexing |-> indexing_status.is_indexing])
       \/ response' = Response("stats", 0, 200,
              [total_images |-> 0, is_indexing |-> FALSE])
    /\ UNCHANGED <<indexing_status, store, hpc, hreq, launched, worker, previous, offquery>>

\* The stores a run can leave: the first k points of a folder.
Stores ==
    UNION {{{PointStruct(i, req) : i \in 0..(k - 1)} : k \in 0..req.n} :
              req \in {r \in Requests : r.exists}}

\* The statuses of an idle and of a just started job.
Statuses == {InitialStatus, ResetStatus}

\* The routes that only read, served in a state the indexing can have left.
QueryInit ==
    /\ indexing_status \in Statuses
    /\ store \in Stores
    /\ previous = NoRun
    /\ NoThreads
    /\ QueryIdle
    /\ ScanIdle
    /\ BatchIdle
    /\ ScraperIdle

QueryNext ==
    \/ search
    \/ get_stats

QuerySpec == QueryInit /\ [][QueryNext]_vars

Next ==
    \/ \E h \in Handlers, req \in Requests : start_check(h, req)
    \/ \E h \in Handlers : start_exists(h)
    \/ \E h \in Handlers : start_reset(h)
    \/ \E h \in Handlers : start_launch(h)
    \/ \E h \in Handlers : start_return(h)
    \/ get_indexing_status
    \/ request_stop
    \/ \E w \in Workers : index_scan(w)
    \/ \E w \in Workers : index_total(w)
    \/ \E w \in Workers : index_progress0(w)
    \/ \E w \in Workers : index_start_time(w)
    \/ \E w \in Workers : index_found(w)
    \/ \E w \in Workers : index_item(w)
    \/ \E w \in Workers : index_upsert(w)
    \/ \E w \in Workers : index_progress(w)
    \/ \E w \in Workers : index_estimate(w)
    \/ \E w \in Workers : index_estimated_time(w)
    \/ \E w \in Workers : index_message(w)
    \/ \E w \in Workers : index_flush(w)
    \/ \E w \in Workers : index_finish(w)
    \/ \E w \in Workers : index_summary(w)

Spec == Init /\ [][Next]_vars

ReindexSpec == ReindexInit /\ [][Next]_vars

\* ------------------------------------------------------------ the scraper
\* webscraper.py.  The Tk callbacks run in the main thread, one at a time; a
\* widget call from a scraper thread is carried out by the main loop between
\* two callbacks, so a callback is one step.  A disabled button invokes no
\* callback.  A step of a scraper thread is one read of stop_event or one
\* widget call, with the browser and file work that precedes it.

\* What the Max Photos entry may hold: the decimal numbers up to MaxPhotos
\* and two texts that int() rejects.
Digits == <<"0", "1", "2", "3", "4", "5", "6", "7", "8", "9">>
Entries == {Digits[i + 1] : i \in 0..MaxPhotos} \cup {"", "many"}

\* int(self.max_photos_entry.get()): ValueError unless the text is a number
IsNumber(text) == \E i \in 1..Len(Digits) : Digits[i] = text
int(text) == (CHOOSE i \in 1..Len(Digits) : Digits[i] = text) - 1

\* Thread.is_alive()
is_alive(t) == scraper[t].pc \notin {"unborn", "done"}

\* The number of threads started so far.
Started == Cardinality({t \in SThreads : scraper[t].pc # "unborn"})

\* webscraper.py:187-211, the Start button.  os.makedirs is taken to succeed.
start_thread ==
    /\ ~closed
    /\ start_button = "normal"
    /\ \E text \in Entries :
         IF IsNumber(text)
           THEN /\ Started < MaxScrapes
                /\ start_button' = "disabled"
                /\ stop_button' = "normal"
                /\ stop_event' = FALSE
                /\ scraper_thread' = Started + 1
                /\ scraper' = [scraper EXCEPT ![Started + 1] =
                                  [UnbornScraper EXCEPT !.pc = "setup",
                                                        !.max_photos = int(text)]]
           ELSE /\ start_button' = "normal"
                /\ stop_button' = "disabled"
                /\ UNCHANGED <<stop_event, scraper_thread, scraper>>
    /\ UNCHANGED <<appvars, queryvars, scanvars, batchvars, closed>>

\* webscraper.py:213-216: the body of stop_thread
StopThreadBody ==
    IF scraper_thread # None /\ is_alive(scraper_thread)
      THEN stop_event' = TRUE /\ stop_button' = "disabled"
      ELSE UNCHANGED <<stop_event, stop_button>>

\* webscraper.py:213-216, the Stop button
stop_thread ==
    /\ ~closed
    /\ stop_button = "normal"
    /\ StopThreadBody
    /\ UNCHANGED <<appvars, queryvars, scanvars, batchvars,
                   start_button, scraper_thread, scraper, closed>>

\* webscraper.py:218-226: the window is closed.  root.destroy() ends mainloop
\* and with it the main thread; the scraper threads are daemon threads
\* (line 202), which the interpreter abandons where they are when it exits.
on_closing ==
    /\ ~closed
    /\ StopThreadBody
    /\ closed' = TRUE
    /\ UNCHANGED <<appvars, queryvars, scanvars, batchvars,
                   start_button, scraper_thread, scraper>>

\* A step of thread t that touches neither the event nor a button.
ScraperStep(t, next) ==
    /\ ~closed
    /\ scraper' = [scraper EXCEPT ![t] = next]
    /\ UNCHANGED <<appvars, queryvars, scanvars, batchvars,
                   start_button, stop_button, stop_event, scraper_thread, closed>>

\* webscraper.py:25-36: the driver is set up and the page opened, or an
\* exception takes the thread to the handler of line 132
scrape_setup(t) ==
    /\ scraper[t].pc = "setup"
    /\ \/ ScraperStep(t, [scraper[t] EXCEPT !.pc = "while"])
       \/ ScraperStep(t, [scraper[t] EXCEPT !.pc = "finally"])

\* downloaded_count >= max_photos or stop_event.is_set()
Halt(t) == scraper[t].downloaded_count >= scraper[t].max_photos \/ stop_event

\* webscraper.py:38: the head of the while loop
scrape_while(t) ==
    /\ scraper[t].pc = "while"
    /\ ScraperStep(t, [scraper[t] EXCEPT !.pc = IF Halt(t) THEN "l127" ELSE "find"])

\* webscraper.py:39-58: the buttons of the page whose id was not processed;
\* none found in 20 seconds breaks out of the loop
scrape_find(t) ==
    /\ scraper[t].pc = "find"
    /\ \/ \E k \in 0..MaxButtons :
            ScraperStep(t, [scraper[t] EXCEPT !.buttons = k, !.pc = "for"])
       \/ ScraperStep(t, [scraper[t] EXCEPT !.pc = "l127"])

\* webscraper.py:60-62: the head of the for loop; past it the item is in flight
scrape_for(t) ==
    /\ scraper[t].pc = "for"
    /\ ScraperStep(t, [scraper[t] EXCEPT
           !.pc = IF scraper[t].buttons = 0 \/ Halt(t) THEN "l108" ELSE "item"])

\* webscraper.py:64-106: the item is downloaded and counted, or an exception
\* is logged; the modal is closed either way
scrape_item(t) ==
    /\ scraper[t].pc = "item"
    /\ \/ ScraperStep(t, [scraper[t] EXCEPT !.downloaded_count = @ + 1,
                                            !.buttons = @ - 1, !.pc = "for"])
       \/ ScraperStep(t, [scraper[t] EXCEPT !.buttons = @ - 1, !.pc = "for"])

\* webscraper.py:108-109
scrape_after(t) ==
    /\ scraper[t].pc = "l108"
    /\ ScraperStep(t, [scraper[t] EXCEPT !.buttons = 0,
                                         !.pc = IF Halt(t) THEN "l127" ELSE "more"])

\* webscraper.py:111-125: Show More is clicked, or is not there
scrape_more(t) ==
    /\ scraper[t].pc = "more"
    /\ \/ ScraperStep(t, [scraper[t] EXCEPT !.pc = "while"])
       \/ ScraperStep(t, [scraper[t] EXCEPT !.pc = "l127"])

\* webscraper.py:127-130: the closing line of the log
scrape_log(t) ==
    /\ scraper[t].pc = "l127"
    /\ ScraperStep(t, [scraper[t] EXCEPT !.pc = "finally"])

\* webscraper.py:132-136: driver.quit()
scrape_quit(t) ==
    /\ scraper[t].pc = "finally"
    /\ ScraperStep(t, [scraper[t] EXCEPT !.pc = "l137"])

\* webscraper.py:137
scrape_enable_start(t) ==
    /\ ~closed
    /\ scraper[t].pc = "l137"
    /\ start_button' = "normal"
    /\ scraper' = [scraper EXCEPT ![t].pc = "l138"]
    /\ UNCHANGED <<appvars, queryvars, scanvars, batchvars,
                   stop_button, stop_event, scraper_thread, closed>>

\* webscraper.py:138
scrape_disable_stop(t) ==
    /\ ~closed
    /\ scraper[t].pc = "l138"
    /\ stop_button' = "disabled"
    /\ scraper' = [scraper EXCEPT ![t].pc = "done"]
    /\ UNCHANGED <<appvars, queryvars, scanvars, batchvars,
                   start_button, stop_event, scraper_thread, closed>>

ScraperInit ==
    /\ ScraperIdle
    /\ AppIdle
    /\ QueryIdle
    /\ ScanIdle
    /\ BatchIdle

ScraperNext ==
    \/ start_thread
    \/ stop_thread
    \/ on_closing
    \/ \E t \in SThreads : scrape_setup(t)
    \/ \E t \in SThreads : scrape_while(t)
    \/ \E t \in SThreads : scrape_find(t)
    \/ \E t \in SThreads : scrape_for(t)
    \/ \E t \in SThreads : scrape_item(t)
    \/ \E t \in SThreads : scrape_after(t)
    \/ \E t \in SThreads : scrape_more(t)
    \/ \E t \in SThreads : scrape_log(t)
    \/ \E t \in SThreads : scrape_quit(t)
    \/ \E t \in SThreads : scrape_enable_start(t)
    \/ \E t \in SThreads : scrape_disable_stop(t)

ScraperSpec == ScraperInit /\ [][ScraperNext]_vars

\* ================================================================ properties
\* Starts accepted so far: each one has rebound indexing_status once.
Accepted == launched + Cardinality({h \in Handlers : hpc[h] = "launch"})

\* The points a run writes for the items it embedded.
Records(w) == {PointStruct(i, worker[w].req) : i \in worker[w].embedded}

\* C1: at most one indexing thread is running (has not yet cleared
\* is_indexing) in any reachable state.
C1_AtMostOneWorker == Cardinality({w \in Workers : Running(w)}) <= 1

\* C2: once a run has completed (is_indexing is false again), progress equals
\* total, and total is the number of embedded items plus the error tally.
\* Stated for behaviours with a single accepted Start.
C2_CompletedRunAccounted ==
    \A w \in Workers :
        (Accepted = 1 /\ worker[w].pc \in {"l184", "done"}) =>
            /\ indexing_status.progress = indexing_status.total
            /\ indexing_status.total =
                   Cardinality(worker[w].embedded) + worker[w].errors

\* C3: no run stays Running for ever: when every launched thread has ended and
\* no accepted Start is about to launch one, is_indexing is false.
C3_NoDeadRunning ==
    ((\A w \in Workers : ~Alive(w)) /\ (\A h \in Handlers : hpc[h] # "launch"))
        => ~indexing_status.is_indexing

\* C4: a status poll never returns a torn snapshot: the message and the
\* estimate it returns name the progress it returns.  Stated for behaviours
\* with a single accepted Start.
Consistent(st) ==
    /\ st.message.kind = "Processed" => st.message.a = st.progress
    /\ st.estimated_time.kind = "remaining" => st.estimated_time.a = st.progress

C4_PollNeverTorn ==
    (Accepted = 1 /\ response.op = "status") => Consistent(response.body)

\* C5: progress <= total in every reachable state of the status record.
C5_ProgressWithinTotal == indexing_status.progress <= indexing_status.total

\* C6: a Start request handled while is_indexing is true is answered 400 and
\* changes neither the status record, nor the threads, nor the store.
C6_RejectedStartChangesNothing ==
    [][\A h \in Handlers :
         (/\ hpc[h] = "idle"
          /\ indexing_status.is_indexing
          /\ (hpc'[h] # "idle" \/ response'.by = h))
         => /\ response'.op = "index" /\ response'.by = h /\ response'.code = 400
            /\ hpc'[h] = "idle"
            /\ UNCHANGED <<indexing_status, worker, launched, store>>]_vars

\* C6 witness: the state just after a rejection, with a job running that has
\* already counted progress.
C6_Witness ==
    /\ response.op = "index" /\ response.code = 400
    /\ indexing_status.is_indexing
    /\ indexing_status.progress > 0
    /\ \E w \in Workers : Running(w)

\* C7: a Start request for a folder that does not exist is answered 404 before
\* the reset: none of its steps changes the status record, the threads or the
\* store, and it never reaches the reset.
C7_MissingFolderChangesNothing ==
    [][\A h \in Handlers :
         /\ (hpc[h] = "idle" /\ hpc'[h] = "exists" /\ ~hreq'[h].exists)
                => UNCHANGED <<indexing_status, worker, launched, store>>
         /\ (hpc[h] = "exists" /\ ~hreq[h].exists /\ hpc'[h] # "exists")
                => /\ response'.op = "index" /\ response'.by = h
                   /\ response'.code = 404
                   /\ hpc'[h] = "idle"
                   /\ UNCHANGED <<indexing_status, worker, launched, store>>]_vars

\* C7 witness: the state just after a 404, with the previous run's counters
\* and final message still in the status record.
C7_Witness ==
    /\ response.op = "index" /\ response.code = 404
    /\ ~indexing_status.is_indexing
    /\ indexing_status.message.kind = "Completed"
    /\ indexing_status.progress > 0

\* C8: when a run that started on an empty store completes, the store holds
\* exactly the points of the items that run embedded.
C8_CompletedRunStored ==
    [][\A w \in Workers :
         (worker[w].pc = "l182" /\ worker'[w].pc = "l184" /\ worker[w].fresh)
            => store' = Records(w)]_vars

\* C9: an item counted in the error tally never gets a record written.
\* Stated for behaviours with a single accepted Start.
C9_FailedItemNotWritten ==
    \A w \in Workers :
        Accepted = 1 => worker[w].errored \cap worker[w].written = {}

\* C10: within a run (between two resets by Start) progress never decreases.
C10_ProgressMonotone ==
    [][(\A h \in Handlers : ~(hpc[h] = "reset" /\ hpc'[h] = "launch"))
          => indexing_status'.progress >= indexing_status.progress]_vars

\* C11: an accepted Start leaves the status record with start_time set before
\* it returns: whenever is_indexing is true, start_time is not None.
C11_RunningHasStartTime ==
    indexing_status.is_indexing => indexing_status.start_time # None

\* C12: for every batch size and the same images and embed outcomes, a run
\* that ends leaves the store, the progress, the total and the error tally
\* that the run with batch size 1 leaves.
C12_BatchSizeIrrelevant ==
    (batch_result.ran /\ batch_result.own.ended /\ batch_result.one.ended) =>
        batch_result.own = batch_result.one

\* C13: the pending batch is flushed and cleared as soon as it reaches
\* batch_size: between items it holds fewer than batch_size points, and no
\* upsert call carries more than batch_size points.
C13_BatchBelowSize ==
    \A w \in Workers :
        /\ worker[w].pc \in {"item", "flush"} => Len(worker[w].points) < batch_size
        /\ worker[w].pc = "upsert" => Len(worker[w].points) <= batch_size

\* C14: a search whose query is empty or missing is answered 400 and calls
\* neither the tokenizer, nor the text encoder, nor the store.
C14_EmptyQueryRejected ==
    (response.op = "search" /\ QueryOf(request) = "") =>
        (response.code = 400 /\ called = {})

\* A search without the query key answered 400 over a store that holds points.
C14_Witness ==
    /\ response.op = "search"
    /\ ~request.has_query
    /\ response.code = 400
    /\ store # {}

\* The files of the folder that one of the patterns matches.
Matching(fs) == {f \in fs : f.ext \in {"jpg", "jpeg", "png"}}

\* C15: the scan yields one item per distinct matching file, a file matched
\* by the direct and by the recursive pattern once, and the total is the
\* number of distinct matching files.
C15_ScanDistinct ==
    scan_result.scanned =>
        /\ Range(scan_result.image_files) = Matching(folder_files)
        /\ Len(scan_result.image_files) = Cardinality(Matching(folder_files))

\* A scanned folder with an image in the folder itself (matched twice) and one
\* in the subfolder.
C15_Witness ==
    /\ scan_result.scanned
    /\ File("", "a", "jpg") \in folder_files
    /\ File("sub", "a", "png") \in folder_files
    /\ Len(scan_result.image_files) >= 2

\* C16: a run over the folder of the completed earlier run, the folder
\* unchanged, ends (app.py:182) with the total the earlier run ended with.
C16_ReindexSameTotal ==
    [][\A w \in Workers :
          (/\ previous.done
           /\ worker[w].req = previous.req
           /\ worker[w].pc = "l182"
           /\ worker'[w].pc = "l184") => indexing_status'.total = previous.total]_vars

\* C17: a stop requested while a job runs is observed by the thread between
\* items: a thread that is at the loop head with items left when the stop has
\* just been requested handles no further item.
C17_StopObserved ==
    [][response.op = "stop" =>
          \A w \in Workers :
              (worker[w].pc = "item" /\ worker[w].idx < worker[w].image_files)
                  => worker'[w] = worker[w]]_vars

\* C18: the final message of a completed run reports as successes the points
\* the run wrote and as errors the items it wrote no point for.  Stated for
\* behaviours with a single accepted Start.
C18_SummaryMatchesStore ==
    \A w \in Workers :
        (Accepted = 1 /\ worker[w].pc = "done"
                      /\ indexing_status.message.kind = "Completed") =>
            /\ indexing_status.message.a = Cardinality(worker[w].written)
            /\ indexing_status.message.b =
                   worker[w].image_files - Cardinality(worker[w].written)

\* C19: the stats route reports is_indexing as the status record has it, also
\* when the store is unavailable.
C19_StatsReportsIndexing ==
    response.op = "stats" =>
        response.body.is_indexing = indexing_status.is_indexing

\* C20: once stop_event is set a scraper thread begins no new item, its
\* downloaded_count never exceeds max_photos, and it ends through its finally
\* block: the process does not end with a thread that was told to stop and
\* has not run lines 134-138.
C20_StopHalts ==
    [][\A t \in SThreads :
          /\ (stop_event /\ scraper[t].pc # "item") => scraper'[t].pc # "item"
          /\ scraper'[t].downloaded_count <= scraper'[t].max_photos
          /\ (closed' /\ stop_event') => ~is_alive(t)']_vars


\* C21: at most one scraper thread is alive at a time: Start stays disabled
\* from the launch of a thread until that thread's finally block re-enables
\* it, and stop_event is cleared by start_thread alone, never while a thread
\* is alive, so that a thread never starts with the event set.
C21_OneScraper ==
    [][/\ Cardinality({t \in SThreads : is_alive(t)'}) <= 1
       /\ \A t \in SThreads :
             (is_alive(t)' /\ scraper'[t].pc # "l138") => start_button' = "disabled"
       /\ (stop_event /\ ~stop_event') =>
             (Started' = Started + 1 /\ \A t \in SThreads : ~is_alive(t))
       /\ \A t \in SThreads :
             (scraper[t].pc = "unborn" /\ is_alive(t)') => ~stop_event']_vars

=============================================================================
